---- MODULE Spec2Model ----
(***************************************************************************)
(* A model of branta/search.py: the seed builder, the four grammar         *)
(* mutation operators, the scorer and the population search loop.          *)
(*                                                                         *)
(* A grammar is the record [keys, rules]: keys is the insertion order of   *)
(* the Python dict Grammar.rules, rules maps each key to the list of       *)
(* bodies of its Rule.  A symbol is a string; a terminal is a character    *)
(* wrapped in double quotes, '"' + c + '"', everything else is a           *)
(* nonterminal name.  Every random draw of the code is an explicit         *)
(* parameter of the operator that models it, and the actions draw it       *)
(* with \E.                                                                *)
(***************************************************************************)
EXTENDS Integers, Sequences, FiniteSets, TLC

VARIABLES
    guides,          \* search(guides, ...): the guide strings
    positives,       \* Scorer.positives
    negatives,       \* Scorer.negatives
    population,      \* search.population: entries [grammar, id, score]
    cur_gram_id,     \* search.cur_gram_id
    minimum_score,   \* search.minimum_score
    i,               \* the generation index of the loop at line 307
    pc,              \* where the search is: "choose", "mutate", "score", "done"
    num_mutations,   \* fuzz_one.num_mutations
    step,            \* mutation steps already applied in the current cascade
    grammar,         \* the argument of the last mutate_func call
    mutant,          \* fuzz_one.mutant, the running candidate
    mutate_func,     \* the operator applied last ("init" before any)
    draw,            \* the random draws of the last operator call
    error,           \* "" or the exception that ended the run
    call             \* the Scorer.score call of the scorer specification

vars == <<guides, positives, negatives, population, cur_gram_id, minimum_score,
          i, pc, num_mutations, step, grammar, mutant, mutate_func, draw,
          error, call>>

(***************************************************************************)
(* Bounds of the model.                                                    *)
(***************************************************************************)
\* Terminal strings are compared up to this length.
MaxStrLen == 4
\* Longest mutation cascade explored by the operator specification.
MaxSteps == 2
\* Longest cascade fuzz_one draws in the search specification (the code draws
\* num_mutations from 1, 2, 4, 8, 16).
MaxCascade == 1
\* Generations the search specification runs (the code runs 30).
NumGenerations == 2
\* Capacity of the population in the search specification (the code's
\* POPULATION_SIZE is 20).
POPULATION_SIZE == 2
\* Most positive, and most negative, examples of a Scorer.score call.
MaxExamples == 2

(***************************************************************************)
(* Symbols.                                                                *)
(***************************************************************************)
Chars == {"a", "b", "c"}

\* '"' + c + '"'
Quote(c) == "\"" \o c \o "\""

Terminals == {Quote(c) : c \in Chars}

IsTerminal(s) == s \in Terminals

Unquote(t) == CHOOSE c \in Chars : Quote(c) = t

Range(s) == {s[k] : k \in DOMAIN s}

\* The list seq without any occurrence of x.
RECURSIVE Without(_, _)
Without(seq, x) ==
    IF seq = <<>> THEN <<>>
    ELSE IF Head(seq) = x THEN Without(Tail(seq), x)
    ELSE <<Head(seq)>> \o Without(Tail(seq), x)

\* list.remove(x): the list without the first occurrence of x.
RECURSIVE RemoveFirst(_, _)
RemoveFirst(seq, x) ==
    IF seq = <<>> THEN <<>>
    ELSE IF Head(seq) = x THEN Tail(seq)
    ELSE <<Head(seq)>> \o RemoveFirst(Tail(seq), x)

\* The concatenation of a sequence of sequences.
RECURSIVE Flatten(_)
Flatten(seqs) ==
    IF seqs = <<>> THEN <<>> ELSE Head(seqs) \o Flatten(Tail(seqs))

(***************************************************************************)
(* grammar.Grammar and grammar.Rule.                                       *)
(***************************************************************************)
\* Grammar(start): the rule table holding only  start -> [[start]].
Grammar(start) ==
    [keys |-> <<"start">>, rules |-> [k \in {"start"} |-> << <<start>> >>]]

\* Grammar.add_rule(rule): rules[rule.start] = rule.
add_rule(g, name, bodies) ==
    [keys  |-> IF name \in DOMAIN g.rules THEN g.keys ELSE Append(g.keys, name),
     rules |-> [k \in DOMAIN g.rules \cup {name} |->
                   IF k = name THEN bodies ELSE g.rules[k]]]

\* Rule.add_body(body)
add_body(bodies, body) == Append(bodies, body)

\* for rule in ...rules.values(): mutant.add_rule(<rule with bodies rules[key]>)
RECURSIVE AddRules(_, _, _, _)
AddRules(m, keys, rules, k) ==
    IF k > Len(keys) THEN m
    ELSE AddRules(add_rule(m, keys[k], rules[keys[k]]), keys, rules, k + 1)

\* util.new_nonterminal(names): a name t<n> that none of names is.
new_nonterminal(names) ==
    LET n == CHOOSE n \in 0..Cardinality(names) :
                 /\ ("t" \o ToString(n)) \notin names
                 /\ \A m \in 0..(n - 1) : ("t" \o ToString(m)) \in names
    IN  "t" \o ToString(n)

\* list(grammar.rules.keys()) with 'start' removed
nonterminals_of(g) == Without(g.keys, "start")

\* [elem for rule in rules.values() for body in rule.bodies for elem in body
\*       if elem not in nonterminals]   (nonterminals still holding 'start')
terminals_of(g) ==
    LET all == Flatten([k \in DOMAIN g.keys |-> Flatten(g.rules[g.keys[k]])])
    IN  SelectSeq(all, LAMBDA e : e \notin DOMAIN g.rules)

(***************************************************************************)
(* init_grammar.                                                           *)
(***************************************************************************)
\* init_grammar.add_rule(Rule(f't{idx}').add_body([char])) for every char of
\* all_chars, enumerated in the order the set yields them.
RECURSIVE AddLeafRules(_, _, _)
AddLeafRules(g, all_chars, idx) ==
    IF idx > Len(all_chars) THEN g
    ELSE AddLeafRules(
             add_rule(g, "t" \o ToString(idx), add_body(<<>>, <<all_chars[idx]>>)),
             all_chars, idx + 1)

\* char_map[char]
char_map(all_chars, char) ==
    "t" \o ToString(CHOOSE idx \in DOMAIN all_chars : all_chars[idx] = char)

\* set(['"' + c + '"' for guide in guides for c in guide])
all_chars_of(gs) == {Quote(c) : c \in UNION {Range(gs[j]) : j \in DOMAIN gs}}

\* The orders in which a Python set of these elements may be enumerated.
Enumerations(S) ==
    {e \in [1..Cardinality(S) -> S] : \A x \in S : \E k \in DOMAIN e : e[k] = x}

\* init_grammar(guides); all_chars is the enumeration of the set of characters.
init_grammar(gs, all_chars) ==
    LET leaves == AddLeafRules(Grammar("t0"), all_chars, 1)
        init_rule == [j \in DOMAIN gs |->
                         [p \in DOMAIN gs[j] |-> char_map(all_chars, Quote(gs[j][p]))]]
    IN  add_rule(leaves, "t0", init_rule)

(***************************************************************************)
(* util.strict_subsequences and util.replace_all, and mutate_bubble.       *)
(***************************************************************************)
\* The elements of body at the positions of I, in order.
RECURSIVE Pick(_, _, _)
Pick(body, I, k) ==
    IF k > Len(body) THEN <<>>
    ELSE (IF k \in I THEN <<body[k]>> ELSE <<>>) \o Pick(body, I, k + 1)

\* util.strict_subsequences(body): the non-empty subsequences of body, not
\* necessarily contiguous, other than body itself.
strict_subsequences(body) ==
    {Pick(body, I, 1) : I \in (SUBSET (1..Len(body))) \ {{}, 1..Len(body)}}

\* util.find_subsequence: the positions of the leftmost order-preserving match
\* of seq in body from position k on, <<>> when there is none.
RECURSIVE find_subsequence(_, _, _, _)
find_subsequence(body, seq, k, acc) ==
    IF Len(acc) = Len(seq) THEN acc
    ELSE IF k > Len(body) THEN <<>>
    ELSE IF body[k] = seq[Len(acc) + 1]
         THEN find_subsequence(body, seq, k + 1, Append(acc, k))
         ELSE find_subsequence(body, seq, k + 1, acc)

\* util.replace_all(body, seq, name): the first match of seq in body is
\* replaced by the single symbol name.
replace_all(body, seq, name) ==
    LET at == find_subsequence(body, seq, 1, <<>>)
        matched == Range(at)
        RECURSIVE Build(_)
        Build(k) ==
            IF k > Len(body) THEN <<>>
            ELSE (IF k = at[1] THEN <<name>>
                  ELSE IF k \in matched THEN <<>> ELSE <<body[k]>>) \o Build(k + 1)
    IN  IF at = <<>> THEN body ELSE Build(1)

\* The set `sequences` of mutate_bubble (lines 82-85).
sequences(g) ==
    UNION {strict_subsequences(body) :
              body \in UNION {Range(g.rules[k]) : k \in DOMAIN g.rules}}

\* mutate_bubble when no body has a strict subsequence (lines 86-93).
copy_rules(g) ==
    AddRules(Grammar(g.rules["start"][1][1]), g.keys, g.rules, 1)

\* mutate_bubble(grammar) with replace_seq drawn from sequences (lines 95-109).
mutate_bubble(g, replace_seq) ==
    LET replace_name == new_nonterminal(DOMAIN g.rules)
        rule_bodies == [k \in DOMAIN g.rules |->
                           [b \in DOMAIN g.rules[k] |->
                               replace_all(g.rules[k][b], replace_seq, replace_name)]]
        m == AddRules(Grammar(g.rules["start"][1][1]), g.keys, rule_bodies, 1)
    IN  add_rule(m, replace_name, add_body(<<>>, replace_seq))

(***************************************************************************)
(* mutate_coalesce.                                                        *)
(***************************************************************************)
Min(x, y) == IF x < y THEN x ELSE y

\* range(2, min(6, len(all))): the counts coalesce_num is drawn from.
coalesce_nums(g) == 2..(Min(6, Len(nonterminals_of(g))) - 1)

\* random.sample(all, n): the lists of n distinct elements of all.
samples(all, n) ==
    {s \in [1..n -> Range(all)] : \A x, y \in 1..n : x # y => s[x] # s[y]}

\* mutate_coalesce with the bodies of the first sampled nonterminal only in
\* the rule of the replacer.
mutate_coalesce_first(g, to_coalesce) ==
    LET nonterminals == nonterminals_of(g)
        replacer_id == new_nonterminal(Range(nonterminals))
        rule_bodies == [k \in DOMAIN g.rules |->
                           [b \in DOMAIN g.rules[k] |->
                               [p \in DOMAIN g.rules[k][b] |->
                                   IF g.rules[k][b][p] \in Range(to_coalesce)
                                   THEN replacer_id ELSE g.rules[k][b][p]]]]
        m == AddRules(Grammar(g.rules["start"][1][1]), g.keys, rule_bodies, 1)
    IN  add_rule(m, replacer_id, g.rules[to_coalesce[1]])

\* mutate_coalesce(grammar) with to_coalesce as sampled (lines 117-147).
mutate_coalesce(g, to_coalesce) ==
    LET nonterminals == nonterminals_of(g)
        replacer_id == new_nonterminal(Range(nonterminals))
        rule_bodies == [k \in DOMAIN g.rules |->
                           [b \in DOMAIN g.rules[k] |->
                               [p \in DOMAIN g.rules[k][b] |->
                                   IF g.rules[k][b][p] \in Range(to_coalesce)
                                   THEN replacer_id ELSE g.rules[k][b][p]]]]
        m == AddRules(Grammar(g.rules["start"][1][1]), g.keys, rule_bodies, 1)
        replacer_rules == Flatten([j \in DOMAIN to_coalesce |->
                                      IF to_coalesce[j] \in DOMAIN g.rules
                                      THEN g.rules[to_coalesce[j]] ELSE <<>>])
    IN  add_rule(m, replacer_id, replacer_rules)

(***************************************************************************)
(* mutate_alternate and mutate_repeat.  Positions are counted from 1 here  *)
(* and from 0 in the code.                                                 *)
(***************************************************************************)
\* random.choices(nonterminals, weights): a nonterminal of positive weight.
rule_keys(g) == {k \in Range(nonterminals_of(g)) : Len(g.rules[k]) > 0}

\* The (rule_key, body_idx) draws of mutate_alternate (lines 165-166) and of
\* mutate_repeat (lines 195-196).
body_sites(g) == UNION {{<<k, b>> : b \in DOMAIN g.rules[k]} : k \in rule_keys(g)}

\* alternates = terminals + nonterminals (lines 157-160)
all_alternates(g) == terminals_of(g) \o nonterminals_of(g)

\* alternates after alternates.remove(<the symbol at the site>) (line 169).
alternates(g, symbol) == RemoveFirst(all_alternates(g), symbol)

\* mutate_alternate overwriting the chosen body instead of appending to the rule.
mutate_alternate_in_place(g, rule_key, body_idx, alternate_idx, alternate) ==
    [g EXCEPT !.rules[rule_key][body_idx][alternate_idx] = alternate]

\* mutate_alternate(grammar) with its draws (lines 172-174).
mutate_alternate(g, rule_key, body_idx, alternate_idx, alternate) ==
    LET new_body == [g.rules[rule_key][body_idx] EXCEPT ![alternate_idx] = alternate]
    IN  [g EXCEPT !.rules[rule_key] = add_body(@, new_body)]

\* mutate_repeat without the rule of the repeater (line 217 left out).
mutate_repeat_no_rule(g, rule_key, body_idx, repeat_idx) ==
    LET repeater_name == new_nonterminal(Range(nonterminals_of(g)))
        rule_bodies == [k \in DOMAIN g.rules |->
                           [b \in DOMAIN g.rules[k] |->
                               LET bod == g.rules[k][b]
                               IN  IF k = rule_key /\ b = body_idx
                                   THEN SubSeq(bod, 1, repeat_idx - 1)
                                        \o <<repeater_name>>
                                        \o SubSeq(bod, repeat_idx + 1, Len(bod))
                                   ELSE bod]]
    IN  AddRules(Grammar(g.rules["start"][1][1]), g.keys, rule_bodies, 1)

\* mutate_repeat(grammar) with its draws (lines 186-219).
mutate_repeat(g, rule_key, body_idx, repeat_idx) ==
    LET repeat_elem == g.rules[rule_key][body_idx][repeat_idx]
        repeater_name == new_nonterminal(Range(nonterminals_of(g)))
        rule_bodies == [k \in DOMAIN g.rules |->
                           [b \in DOMAIN g.rules[k] |->
                               LET bod == g.rules[k][b]
                               IN  IF k = rule_key /\ b = body_idx
                                   THEN SubSeq(bod, 1, repeat_idx - 1)
                                        \o <<repeater_name>>
                                        \o SubSeq(bod, repeat_idx + 1, Len(bod))
                                   ELSE bod]]
        m == AddRules(Grammar(g.rules["start"][1][1]), g.keys, rule_bodies, 1)
    IN  add_rule(m, repeater_name,
                 add_body(add_body(<<>>, <<repeat_elem>>),
                          <<repeat_elem, repeater_name>>))

(***************************************************************************)
(* The language of a grammar, as the parser built by Grammar.parser()      *)
(* decides it: the terminal strings (lists of characters) of length at     *)
(* most n derivable from the rule 'start'.                                 *)
(***************************************************************************)
\* The strings x \o y no longer than n.
Concat(X, Y, n) == {xy[1] \o xy[2] : xy \in {p \in X \X Y : Len(p[1]) + Len(p[2]) <= n}}

\* The strings a symbol derives, given those each nonterminal is known to derive.
SymbolStrings(A, s) ==
    IF IsTerminal(s) THEN {<<Unquote(s)>>}
    ELSE IF s \in DOMAIN A THEN A[s] ELSE {}

RECURSIVE BodyStrings(_, _, _, _)
BodyStrings(A, body, k, n) ==
    IF k > Len(body) THEN {<<>>}
    ELSE Concat(SymbolStrings(A, body[k]), BodyStrings(A, body, k + 1, n), n)

RECURSIVE Derivable(_, _, _)
Derivable(g, A, n) ==
    LET B == [k \in DOMAIN g.rules |->
                 UNION {BodyStrings(A, g.rules[k][b], 1, n) : b \in DOMAIN g.rules[k]}]
    IN  IF B = A THEN A ELSE Derivable(g, B, n)

Language(g, n) == Derivable(g, [k \in DOMAIN g.rules |-> {}], n)["start"]

\* parser.parse(input) succeeds.
Accepts(g, input) == input \in Language(g, Len(input))

(***************************************************************************)
(* The floats of Scorer.score.  A Python float is an IEEE-754 binary64     *)
(* number and every operation on it is rounded to the nearest of them,     *)
(* ties to the even one.  A positive float is the record [m, e] of value   *)
(* m * 2^e with 2^52 <= m < 2^53; m is the little-endian list of its five  *)
(* digits in base 2^13.  Two floats are the same number exactly when their *)
(* records are equal.                                                      *)
(***************************************************************************)
Limb == 2^13

\* The digits l with the carry c propagated through them.
RECURSIVE Norm(_, _)
Norm(l, c) ==
    IF Len(l) = 0
    THEN IF c = 0 THEN <<>> ELSE <<c % Limb>> \o Norm(<<>>, c \div Limb)
    ELSE <<(l[1] + c) % Limb>> \o Norm(Tail(l), (l[1] + c) \div Limb)

\* Bit p (the lowest is bit 0) of the number l.
Bit(l, p) ==
    IF p < 0 \/ p \div 13 + 1 > Len(l) THEN 0
    ELSE (l[p \div 13 + 1] \div 2^(p % 13)) % 2

\* The number of bits of l.
BitLen(l) ==
    LET used == {k \in DOMAIN l : l[k] # 0}
        top == CHOOSE k \in used : \A j \in used : j <= k
    IN  IF used = {} THEN 0
        ELSE 13 * (top - 1) + Cardinality({t \in 0..12 : 2^t <= l[top]})

\* The five digits of the number whose bit p is b[p], for p in 0..64.
Pack(b) ==
    [k \in 1..5 |->
        LET p == 13 * (k - 1)
        IN  b[p] + 2 * b[p + 1] + 4 * b[p + 2] + 8 * b[p + 3] + 16 * b[p + 4]
            + 32 * b[p + 5] + 64 * b[p + 6] + 128 * b[p + 7] + 256 * b[p + 8]
            + 512 * b[p + 9] + 1024 * b[p + 10] + 2048 * b[p + 11] + 4096 * b[p + 12]]

\* floor(l / 2^s), s of either sign, in five digits.
Shift(l, s) == Pack([p \in 0..64 |-> Bit(l, s + p)])

FZero == [m |-> <<0, 0, 0, 0, 0>>, e |-> 0]

\* The float nearest to l * 2^e, ties to even.
Round(l, e) ==
    LET s == BitLen(l) - 53
        q == Shift(l, s)
        up == /\ Bit(l, s - 1) = 1
              /\ \/ Bit(l, s) = 1
                 \/ \E p \in 0..(s - 2) : Bit(l, p) = 1
        r == IF up THEN Norm(q, 1) ELSE Norm(q, 0)
    IN  IF BitLen(l) = 0 THEN FZero
        ELSE IF Bit(r, 53) = 1 THEN [m |-> Norm(Shift(r, 1), 0), e |-> e + s + 1]
        ELSE [m |-> r, e |-> e + s]

\* 2^j mod n, for j in 0..55 and n < 2^15.
PowMod(j, n) ==
    LET h == 2^14 % n
        a == IF j >= 14 THEN h ELSE 1 % n
        b == IF j >= 28 THEN (a * h) % n ELSE a
        c == IF j >= 42 THEN (b * h) % n ELSE b
    IN  (c * (2^(j % 14) % n)) % n

\* k / n for integers 0 <= k <= n < 2^15, by long division: k is doubled a
\* times to reach n, the quotient of that by n is taken to 55 bits and
\* extended by one last bit that is 1 when a remainder is left.
FDiv(k, n) ==
    LET a == Cardinality({t \in 0..15 : k * 2^t < n})
        rem(j) == (k * 2^a * PowMod(j, n)) % n
        quot == [p \in 0..64 |->
                    IF p = 0 THEN (IF rem(54) = 0 THEN 0 ELSE 1)
                    ELSE IF p <= 54 THEN (IF 2 * rem(54 - p) >= n THEN 1 ELSE 0)
                    ELSE IF p = 55 THEN 1 ELSE 0]
    IN  IF k = 0 THEN FZero ELSE Round(Pack(quot), 0 - 55 - a)

FOne == FDiv(1, 1)

\* 2^t
Pow2(t) == [k \in 1..(t \div 13 + 1) |-> IF k = t \div 13 + 1 THEN 2^(t % 13) ELSE 0]

\* a - b for numbers a >= b, digit k onwards.
RECURSIVE BSub(_, _, _, _)
BSub(a, b, k, borrow) ==
    IF k > Len(a) THEN <<>>
    ELSE LET d == a[k] - (IF k <= Len(b) THEN b[k] ELSE 0) - borrow
         IN  <<IF d < 0 THEN d + Limb ELSE d>> \o BSub(a, b, k + 1, IF d < 0 THEN 1 ELSE 0)

\* 1 - x for a float 0 <= x <= 1.
FSub1(x) ==
    IF x = FZero THEN FOne ELSE Round(BSub(Pow2(0 - x.e), x.m, 1, 0), x.e)

RECURSIVE Convolve(_, _, _, _)
Convolve(a, b, k, j) ==
    IF j > Len(a) THEN 0
    ELSE (IF k - j + 1 \in DOMAIN b THEN a[j] * b[k - j + 1] ELSE 0)
         + Convolve(a, b, k, j + 1)

\* x * y
FMul(x, y) ==
    IF x = FZero \/ y = FZero THEN FZero
    ELSE Round(Norm([k \in 1..(Len(x.m) + Len(y.m) - 1) |-> Convolve(x.m, y.m, k, 1)], 0),
               x.e + y.e)

\* x < y
FLess(x, y) ==
    IF y = FZero THEN FALSE
    ELSE IF x = FZero THEN TRUE
    ELSE \/ x.e < y.e
         \/ /\ x.e = y.e
            /\ \E k \in 1..5 : /\ x.m[k] < y.m[k]
                               /\ \A j \in (k + 1)..5 : x.m[j] = y.m[j]

\* max([x, y])
FMax(x, y) == IF FLess(x, y) THEN y ELSE x

(***************************************************************************)
(* Scorer.score.  The grammar engine is outside the program: whether       *)
(* grammar.parser() returns (compiles) and whether parser.parse accepts    *)
(* each example (pos_ok, neg_ok) are the inputs.                           *)
(***************************************************************************)
\* parses(grammar, input) of lines 27-33: grammar.parser() is called outside
\* the try block, parser.parse inside it.
parses(compiles, parse_ok) ==
    IF ~compiles THEN "raise" ELSE IF parse_ok THEN "True" ELSE "False"

\* sum([1 for e in examples if parses(grammar, e)])
matched(compiles, oks) ==
    Cardinality({j \in DOMAIN oks : parses(compiles, oks[j]) = "True"})

\* Scorer.score(grammar) (lines 35-39): error is the exception that leaves it,
\* in the order of the lines that raise, and value the float returned.
score(compiles, pos_ok, neg_ok) ==
    LET num_positives_matched == matched(compiles, pos_ok)
        positive_score == FMax(FDiv(num_positives_matched, Len(pos_ok)),
                               FDiv(1, 2 * Len(pos_ok)))
        num_negatives_matched == matched(compiles, neg_ok)
        negative_score == FMax(FSub1(FDiv(num_negatives_matched, Len(neg_ok))),
                               FDiv(1, 2 * Len(neg_ok)))
        exception ==
            IF \E j \in DOMAIN pos_ok : parses(compiles, pos_ok[j]) = "raise"
            THEN "ParserError"
            ELSE IF Len(pos_ok) = 0 THEN "ZeroDivisionError"
            ELSE IF \E j \in DOMAIN neg_ok : parses(compiles, neg_ok[j]) = "raise"
            THEN "ParserError"
            ELSE IF Len(neg_ok) = 0 THEN "ZeroDivisionError"
            ELSE ""
    IN  [raised |-> exception # "",
         error  |-> exception,
         value  |-> IF exception # "" THEN FZero
                    ELSE FMul(positive_score, negative_score)]

\* score_is_good(score): score >= 1
score_is_good(value) == ~FLess(value, FOne)

\* scorer.score(grammar) with the engine deciding membership in the language
\* of the grammar and compiling every grammar.
grammar_score(g, pos, neg) ==
    score(TRUE, [j \in DOMAIN pos |-> Accepts(g, pos[j])],
                [j \in DOMAIN neg |-> Accepts(g, neg[j])])

(***************************************************************************)
(* One mutation step of the cascade of fuzz_one (lines 257-266):           *)
(* mutant = mutate_func(mutant), one action per operator.  An exception    *)
(* raised by an operator is caught nowhere and ends the run.               *)
(***************************************************************************)
NoDraw == [rule_key |-> "", body_idx |-> 0, idx |-> 0, symbol |-> "", seq |-> <<>>]

\* The loop  for i in range(num_mutations)  around a step.
InCascade == pc = "mutate" /\ error = "" /\ step < num_mutations

Advance ==
    /\ step' = step + 1
    /\ pc' = IF error' = "" /\ step + 1 = num_mutations THEN "score" ELSE pc
    /\ UNCHANGED <<guides, positives, negatives, population, cur_gram_id,
                   minimum_score, i, num_mutations, call>>

\* An exception leaves the operator: no grammar is returned.
Raises(exception) == mutant' = mutant /\ draw' = NoDraw /\ error' = exception

Bubble ==
    /\ InCascade
    /\ grammar' = mutant
    /\ mutate_func' = "mutate_bubble"
    /\ error' = error
    /\ IF sequences(mutant) = {}
       THEN mutant' = copy_rules(mutant) /\ draw' = NoDraw
       ELSE \E replace_seq \in sequences(mutant) :
               /\ mutant' = mutate_bubble(mutant, replace_seq)
               /\ draw' = [NoDraw EXCEPT !.seq = replace_seq]
    /\ Advance

Coalesce ==
    /\ InCascade
    /\ grammar' = mutant
    /\ mutate_func' = "mutate_coalesce"
    /\ IF coalesce_nums(mutant) = {}
       THEN \* random.choice of an empty range raises (line 124)
            Raises("IndexError")
       ELSE \E coalesce_num \in coalesce_nums(mutant) :
            \E to_coalesce \in samples(nonterminals_of(mutant), coalesce_num) :
               /\ mutant' = mutate_coalesce(mutant, to_coalesce)
               /\ draw' = [NoDraw EXCEPT !.seq = to_coalesce]
               /\ error' = error
    /\ Advance

Alternate ==
    /\ InCascade
    /\ grammar' = mutant
    /\ mutate_func' = "mutate_alternate"
    /\ IF nonterminals_of(mutant) = <<>>
       THEN \* random.choices of an empty population (line 165)
            Raises("IndexError")
       ELSE IF rule_keys(mutant) = {}
       THEN \* total_num_rules is 0 (line 163)
            Raises("ZeroDivisionError")
       ELSE \E site \in body_sites(mutant) :
          LET body == mutant.rules[site[1]][site[2]]
          IN  IF Len(body) = 0
              THEN \* random.choice of range(0) (line 167)
                   Raises("IndexError")
              ELSE \E alternate_idx \in DOMAIN body :
                 LET alts == alternates(mutant, body[alternate_idx])
                 IN  IF body[alternate_idx] \notin Range(all_alternates(mutant))
                     THEN \* alternates.remove of a symbol it does not hold (line 169)
                          Raises("ValueError")
                     ELSE IF alts = <<>>
                     THEN \* random.choice of an empty list (line 170)
                          Raises("IndexError")
                     ELSE \E a \in DOMAIN alts :
                         /\ mutant' = mutate_alternate(mutant, site[1], site[2],
                                                       alternate_idx, alts[a])
                         /\ draw' = [NoDraw EXCEPT !.rule_key = site[1],
                                                   !.body_idx = site[2],
                                                   !.idx = alternate_idx,
                                                   !.symbol = alts[a]]
                         /\ error' = error
    /\ Advance

Repeat ==
    /\ InCascade
    /\ grammar' = mutant
    /\ mutate_func' = "mutate_repeat"
    /\ IF nonterminals_of(mutant) = <<>>
       THEN \* random.choices of an empty population (line 195)
            Raises("IndexError")
       ELSE IF rule_keys(mutant) = {}
       THEN \* total_num_rules is 0 (line 193)
            Raises("ZeroDivisionError")
       ELSE \E site \in body_sites(mutant) :
          LET body == mutant.rules[site[1]][site[2]]
          IN  IF Len(body) = 0
              THEN \* random.choice of range(0) (line 197)
                   Raises("IndexError")
              ELSE \E repeat_idx \in DOMAIN body :
                      /\ mutant' = mutate_repeat(mutant, site[1], site[2], repeat_idx)
                      /\ draw' = [NoDraw EXCEPT !.rule_key = site[1],
                                                !.body_idx = site[2],
                                                !.idx = repeat_idx]
                      /\ error' = error
    /\ Advance

(***************************************************************************)
(* The operator specification: every cascade of at most MaxSteps mutation  *)
(* steps from the seed grammar of a list of guides, among them the empty   *)
(* list and a list holding the empty guide.                                *)
(***************************************************************************)
GuideSets == { <<>>, << <<>>, <<"a">> >>, << <<"a">> >>, << <<"a", "b">> >>,
               << <<"a">>, <<"b">> >>, << <<"a", "b", "a">> >> }

InitMutate ==
    /\ guides \in GuideSets
    /\ positives = <<>>
    /\ negatives = <<>>
    /\ population = <<>>
    /\ cur_gram_id = 0
    /\ minimum_score = FZero
    /\ i = 0
    /\ pc = "mutate"
    /\ num_mutations = MaxSteps
    /\ step = 0
    /\ \E all_chars \in Enumerations(all_chars_of(guides)) :
          /\ mutant = init_grammar(guides, all_chars)
          /\ grammar = mutant
    /\ mutate_func = "init_grammar"
    /\ draw = NoDraw
    /\ error = ""
    /\ call = <<>>

NextMutate == Bubble \/ Coalesce \/ Alternate \/ Repeat

SpecMutate == InitMutate /\ [][NextMutate]_vars

\* C8 - every nonterminal referenced in a body of a returned grammar has a rule.
WellFormed(g) ==
    \A k \in DOMAIN g.rules : \A b \in DOMAIN g.rules[k] : \A p \in DOMAIN g.rules[k][b] :
        IsTerminal(g.rules[k][b][p]) \/ g.rules[k][b][p] \in DOMAIN g.rules

C8_WellFormed == WellFormed(mutant)

\* The strings of length at most MaxStrLen that a grammar derives.
Lang(g) == Language(g, MaxStrLen)

\* C4 - mutate_bubble(G) derives exactly the strings G derives.
C4_BubblePreserves ==
    (mutate_func = "mutate_bubble" /\ error = "") => Lang(mutant) = Lang(grammar)

\* C5 as stated - mutate_coalesce(G) derives exactly the strings G derives.
C5_CoalescePreserves ==
    (mutate_func = "mutate_coalesce" /\ error = "") => Lang(mutant) = Lang(grammar)

\* C5 as amended - mutate_coalesce(G) derives every string G derives.
C5_CoalesceKeeps ==
    (mutate_func = "mutate_coalesce" /\ error = "") => Lang(grammar) \subseteq Lang(mutant)

\* C6 - mutate_alternate(G) and mutate_repeat(G) derive every string G derives.
C6_Enlarging ==
    (mutate_func \in {"mutate_alternate", "mutate_repeat"} /\ error = "")
        => Lang(grammar) \subseteq Lang(mutant)

(***************************************************************************)
(* search: the population loop.                                            *)
(***************************************************************************)
\* The (guides, positives, negatives) the search specification is run on.
Scenarios ==
    { [guides |-> << <<"a", "b">> >>, positives |-> << <<"a", "b">> >>,
       negatives |-> << <<"b", "a">> >>],
      [guides |-> << <<"a">> >>, positives |-> << <<"a">> >>,
       negatives |-> << <<"b">> >>],
      [guides |-> << <<"a", "b">> >>, positives |-> << <<"a", "a">>, <<"b", "b">> >>,
       negatives |-> << <<"a", "b">> >>],
      [guides |-> << <<"a">> >>, positives |-> << <<"a">> >>, negatives |-> <<>>] }

\* The locals of fuzz_one outside a call of it.
NoGrammar == [keys |-> <<>>, rules |-> <<>>]

\* Lines 229-235.  An exception of scorer.score (line 234) ends the run before
\* there is a population.
Init ==
    /\ \E sc \in Scenarios :
          /\ guides = sc.guides
          /\ positives = sc.positives
          /\ negatives = sc.negatives
    /\ \E all_chars \in Enumerations(all_chars_of(guides)) :
          LET initial_grammar == init_grammar(guides, all_chars)
              s == grammar_score(initial_grammar, positives, negatives)
          IN  IF s.raised
              THEN /\ minimum_score = FZero
                   /\ population = <<>>
                   /\ error = s.error
              ELSE /\ minimum_score = s.value
                   /\ population = <<[grammar |-> initial_grammar, id |-> 0,
                                      score |-> minimum_score]>>
                   /\ error = ""
    /\ cur_gram_id = 0
    /\ i = 0
    /\ pc = "choose"
    /\ num_mutations = 0
    /\ step = 0
    /\ grammar = NoGrammar
    /\ mutant = NoGrammar
    /\ mutate_func = ""
    /\ draw = NoDraw
    /\ call = <<>>

\* [1, 2, 4, 8, 16] of line 254, up to MaxCascade.
CascadeLengths == {n \in {1, 2, 4, 8, 16} : n <= MaxCascade}

\* One turn of the loop at line 307 up to the cascade: choose_parent (line 243)
\* and the head of fuzz_one (lines 253-256).
ChooseParent ==
    /\ pc = "choose" /\ error = "" /\ i < NumGenerations
    /\ \E parent \in DOMAIN population : \E n \in CascadeLengths :
          /\ mutant' = population[parent].grammar
          /\ num_mutations' = n
    /\ cur_gram_id' = cur_gram_id + 1
    /\ step' = 0
    /\ pc' = "mutate"
    /\ grammar' = NoGrammar
    /\ mutate_func' = ""
    /\ draw' = NoDraw
    /\ UNCHANGED <<guides, positives, negatives, population, minimum_score, i,
                   error, call>>

\* The loop of lines 291-296 stopping at the first entry whose score is not
\* below score: a new entry goes before the older entries of its score.
RECURSIVE insert_idx_before_ties(_, _)
insert_idx_before_ties(pop, s) ==
    IF pop = <<>> \/ ~FLess(Head(pop).score, s) THEN 0
    ELSE 1 + insert_idx_before_ties(Tail(pop), s)

\* The loop of lines 291-296: the number of leading entries whose score is not
\* above score.
RECURSIVE insert_idx(_, _)
insert_idx(pop, s) ==
    IF pop = <<>> \/ FLess(s, Head(pop).score) THEN 0
    ELSE 1 + insert_idx(Tail(pop), s)

\* list.insert(idx, entry)
Insert(pop, idx, entry) ==
    SubSeq(pop, 1, idx) \o <<entry>> \o SubSeq(pop, idx + 1, Len(pop))

\* while len(population) > POPULATION_SIZE: population.pop(0)
RECURSIVE Evict(_)
Evict(pop) == IF Len(pop) > POPULATION_SIZE THEN Evict(Tail(pop)) ELSE pop

\* add_to_population(grammar, score, grammar_id): the new population
\* (lines 289-301).
add_to_population(pop, g, s, grammar_id) ==
    Evict(Insert(pop, insert_idx(pop, s), [grammar |-> g, id |-> grammar_id, score |-> s]))

\* The threshold read from the best entry, population[-1], instead.
refreshed_minimum_of_best(pop) == pop[Len(pop)].score

\* minimum_score = population[0][2] (line 303)
refreshed_minimum(pop) == pop[1].score

\* The tail of fuzz_one (lines 276-278), add_to_population and the end of the
\* turn of the loop.
ScoreMutant ==
    /\ pc = "score" /\ error = ""
    /\ LET s == grammar_score(mutant, positives, negatives)
           mutant_score == s.value
       IN  IF s.raised
           THEN /\ error' = s.error
                /\ UNCHANGED <<population, minimum_score, i, pc, num_mutations, step,
                               grammar, mutant, mutate_func, draw>>
           ELSE /\ IF FLess(minimum_score, mutant_score)
                   THEN /\ population' = add_to_population(population, mutant,
                                                           mutant_score, cur_gram_id)
                        /\ minimum_score' = refreshed_minimum(population')
                   ELSE UNCHANGED <<population, minimum_score>>
                /\ i' = i + 1
                /\ pc' = "choose"
                /\ num_mutations' = 0
                /\ step' = 0
                /\ grammar' = NoGrammar
                /\ mutant' = NoGrammar
                /\ mutate_func' = ""
                /\ draw' = NoDraw
                /\ error' = error
    /\ UNCHANGED <<guides, positives, negatives, cur_gram_id, call>>

\* Line 312: the loop is over and the best entry, population[-1], is reported.
Finish ==
    /\ pc = "choose" /\ error = "" /\ i = NumGenerations
    /\ pc' = "done"
    /\ UNCHANGED <<guides, positives, negatives, population, cur_gram_id,
                   minimum_score, i, num_mutations, step, grammar, mutant,
                   mutate_func, draw, error, call>>

Next == ChooseParent \/ Bubble \/ Coalesce \/ Alternate \/ Repeat \/ ScoreMutant \/ Finish

Spec == Init /\ [][Next]_vars

\* C1 - the population is ordered ascending by score, entries of equal score
\* in ascending order of generation id.
C1_Sorted ==
    \A x, y \in DOMAIN population :
        x < y => \/ FLess(population[x].score, population[y].score)
                 \/ /\ population[x].score = population[y].score
                    /\ population[x].id < population[y].id

\* C2 - minimum_score is the score of population[0], the lowest of the population.
C2_Minimum ==
    population # <<>>
        => /\ minimum_score = population[1].score
           /\ \A x \in DOMAIN population : ~FLess(population[x].score, minimum_score)

\* The score of the seed grammar (the same for every enumeration of the characters).
SeedScore ==
    grammar_score(init_grammar(guides, CHOOSE e \in Enumerations(all_chars_of(guides)) : TRUE),
                  positives, negatives).value

\* C7 - when the seed grammar scores 1.0 the search runs to its end with the
\* seed as the only entry of the population, and reports it.
C7_SeedStays ==
    score_is_good(SeedScore)
        => /\ error = ""
           /\ Len(population) = 1
           /\ population[Len(population)].id = 0
           /\ population[Len(population)].score = FOne

(***************************************************************************)
(* The scorer specification: Scorer.score called once, for every verdict   *)
(* of the grammar engine on at most MaxExamples positive and MaxExamples   *)
(* negative examples, no example included.                                 *)
(***************************************************************************)
Verdicts == UNION {[1..n -> BOOLEAN] : n \in 0..MaxExamples}

InitScore ==
    /\ call \in [compiles : BOOLEAN, pos_ok : Verdicts, neg_ok : Verdicts,
                 state : {"called"}, error : {""}, value : {FZero}]
    /\ guides = <<>>
    /\ positives = <<>>
    /\ negatives = <<>>
    /\ population = <<>>
    /\ cur_gram_id = 0
    /\ minimum_score = FZero
    /\ i = 0
    /\ pc = "score"
    /\ num_mutations = 0
    /\ step = 0
    /\ grammar = NoGrammar
    /\ mutant = NoGrammar
    /\ mutate_func = ""
    /\ draw = NoDraw
    /\ error = ""

ScoreCall ==
    /\ call.state = "called"
    /\ LET r == score(call.compiles, call.pos_ok, call.neg_ok)
       IN  call' = [call EXCEPT !.state = IF r.raised THEN "raised" ELSE "returned",
                                !.error = r.error,
                                !.value = r.value]
    /\ UNCHANGED <<guides, positives, negatives, population, cur_gram_id,
                   minimum_score, i, pc, num_mutations, step, grammar, mutant,
                   mutate_func, draw, error>>

NextScore == ScoreCall

SpecScore == InitScore /\ [][NextScore]_vars

\* C3 - Scorer.score, given at least one positive and one negative example,
\* returns a value whatever fails: an example on which the engine fails,
\* compiling or parsing, counts as not matched.
C3_NeverPropagates ==
    (call.state # "called" /\ Len(call.pos_ok) > 0 /\ Len(call.neg_ok) > 0)
        => /\ call.state = "returned"
           /\ call.value =
                 score(TRUE, [j \in DOMAIN call.pos_ok |-> call.compiles /\ call.pos_ok[j]],
                             [j \in DOMAIN call.neg_ok |-> call.compiles /\ call.neg_ok[j]]).value

(***************************************************************************)
(* Claims about the operators, under SpecMutate.                           *)
(***************************************************************************)
\* C9 - mutate_alternate keeps every body, appends exactly one body to the
\* chosen rule, and that body differs from the chosen one at exactly the
\* chosen position.
C9_AlternateDiffers ==
    (mutate_func = "mutate_alternate" /\ error = "")
        => LET old == grammar.rules[draw.rule_key]
               new == mutant.rules[draw.rule_key]
               chosen == old[draw.body_idx]
           IN  /\ mutant.keys = grammar.keys
               /\ \A k \in DOMAIN grammar.rules \ {draw.rule_key} :
                      mutant.rules[k] = grammar.rules[k]
               /\ Len(new) = Len(old) + 1
               /\ SubSeq(new, 1, Len(old)) = old
               /\ Len(new[Len(new)]) = Len(chosen)
               /\ \A p \in DOMAIN chosen :
                      (new[Len(new)][p] # chosen[p]) <=> (p = draw.idx)

\* C10 - on a grammar with n >= 2 nonterminals other than 'start',
\* mutate_coalesce completes, having sampled between 2 and min(5, n) of them.
C10_CoalesceFromTwo ==
    (mutate_func = "mutate_coalesce" /\ Len(nonterminals_of(grammar)) >= 2)
        => /\ error = ""
           /\ Len(draw.seq) \in 2..Min(5, Len(nonterminals_of(grammar)))

(***************************************************************************)
(* States in which the cases of the claims have happened.                  *)
(***************************************************************************)
\* C1: two mutants of equal score are the population, the seed evicted.
C1_Witness ==
    /\ pc = "choose" /\ Len(population) = POPULATION_SIZE
    /\ population[1].id > 0
    /\ \E x \in DOMAIN population : x > 1 /\ population[x].score = population[x - 1].score

\* C2: a mutant was inserted below an older entry, the seed was evicted and
\* the threshold rose to the score of that mutant.
C2_Witness ==
    /\ pc = "choose" /\ Len(population) = POPULATION_SIZE
    /\ population[1].id > population[2].id
    /\ FLess(SeedScore, minimum_score)

\* C5: a second mutation step coalesced, and the grammar derives more than before.
C5_Witness ==
    /\ mutate_func = "mutate_coalesce" /\ error = "" /\ step = 2
    /\ Lang(grammar) # Lang(mutant)

\* C6: mutate_alternate was applied to a grammar holding a recursive rule (one
\* made by mutate_repeat), and the grammar derives more than before.
C6_Witness ==
    /\ mutate_func = "mutate_alternate" /\ error = ""
    /\ \E k \in DOMAIN grammar.rules : \E b \in DOMAIN grammar.rules[k] :
          k \in Range(grammar.rules[k][b])
    /\ Lang(grammar) # Lang(mutant)

\* C8: a second mutation step returned a grammar whose 'start' rule refers to a
\* nonterminal minted by an operator.
C8_Witness ==
    /\ step = 2 /\ error = ""
    /\ mutant.rules["start"][1][1] # "t0"
    /\ mutant.rules["start"][1][1] \notin DOMAIN init_grammar(guides,
           CHOOSE e \in Enumerations(all_chars_of(guides)) : TRUE).rules

====
